---- MODULE Spec2Model ----
(***************************************************************************)
(* Model of mycelo's Cluster (Init, Run, ensureNodes) and LoadBot (Start,  *)
(* runBot, waitFor).                                                       *)
(* Cluster lives in package cluster (cluster.go), LoadBot in               *)
(* mycelo/loadbot/bot.go.  Indexes are 0-based as in the Go code.          *)
(***************************************************************************)
EXTENDS Integers, Sequences, FiniteSets, TLC

\* Largest number of validator nodes (len(cl.env.ValidatorAccounts())).
MaxNodes == 3

\* Largest number of developer accounts (len(cfg.Accounts)).
MaxAccounts == 2

\* Largest cfg.TransactionsPerSecond and largest len(cfg.Accounts) the delay
\* arithmetic and the client pool are checked for.
MaxTPS == 7

MaxPacedAccounts == 10

\* Largest cfg.ClientCount the client pool is checked for.
MaxClientCount == 102

\* const clientCap = 100
clientCap == 100

\* time.Millisecond, in time.Duration's unit (nanoseconds).
Millisecond == 1000000

\* Largest number of goroutines that call into one Cluster.
MaxCallers == 2

\* Largest number of Cluster operations invoked on one Cluster.
MaxCalls == 3

VARIABLES
    \* ---- Cluster, shared by Init and Run
    numNodes,       \* len(validators): the number of validator accounts
    clNodes,        \* cl.nodes: which slice of nodes it holds (gen 0: nil)
    nodeId,         \* the network identifier node i's EnodeURL() reports
    builds,         \* history: how many node slices ensureNodes has built
    \* ---- callers of Init, Run and PrintNodeInfo, inside cl.ensureNodes()
    callPc,         \* caller c: "idle","check","build","ret"
    callOp,         \* the operation caller c invoked
    callSaw,        \* the nodes ensureNodes returned to caller c
    callSeen,       \* history: per returned call, its operation and nodes
    \* ---- Cluster.Init
    initPc,         \* position of Init: "start","init","enode","peers","done"
    initI,          \* loop index i of the current loop
    enodeUrls,      \* local enodeUrls, 0 standing for the empty string
    nodeInited,     \* node i's Init has succeeded
    staticPushed,   \* node i's SetStaticNodes has succeeded
    staticNodes,    \* the urls last pushed to node i
    initCalls,      \* history: the calls made on nodes, in order
    initResult,     \* the error Init returned
    \* ---- Cluster.Run
    runPc,          \* position of Run: "start","spawn","wait","done"
    runI,           \* loop index of the spawning loop
    nodeRun,        \* node task i: "idle","running","returned"
    nodeRet,        \* what node i's Run returned
    nodeWhy,        \* history: why node i's Run returned: "exit","fail","cancel"
    runGroupErr,    \* errgroup's err (set once)
    runGroupDone,   \* the group's derived context was cancelled by the group
    runCallerDone,  \* the context passed to Run was cancelled by the caller
    runCancelLive,  \* history: the nodes that were running when it was
    runRetOrder,    \* history: node indexes in the order their Run returned
    runResult,      \* the error Run returned
    \* ---- LoadBot
    numAccounts,    \* len(cfg.Accounts)
    cfgTPS,         \* cfg.TransactionsPerSecond
    cfgClientCount, \* cfg.ClientCount
    clientCount,    \* local clientCount
    poolLen,        \* len(clients); clients[k] is the k-th client made
    factoryCalls,   \* history: the number of calls of cfg.ClientFactory()
    delay,          \* local delay in milliseconds, -1 before it is computed
    startDelay,     \* local startDelay in nanoseconds, -1 before it is computed
    botPc,          \* position of Start: "start","clients","launch","wait",
                    \* "done","panic"
    botI,           \* loop index of the launch loop
    botTimerFired,  \* the timer of Start's current waitFor has fired
    botElapsed,     \* history: how many of Start's stagger timers have fired
    wPc,            \* worker i: "idle","send","mined","pace","done"
    wPrev,          \* history: the position worker i was in before wPc[i]
    wCallCtx,       \* the context was already done when worker i's call began
    wRet,           \* what runBot of worker i returned
    wAcc,           \* the account (and signing key) worker i was given, -1: none
    wClient,        \* the index in clients of worker i's client, -1: none
    wPhase,         \* the clock against worker i's txSentTime + delay when
                    \* the worker last read it, or since: 0 before it, 1 at
                    \* it, 2 after it
    wInFlight,      \* history: worker i's transactions sent and not yet mined
    botGroupErr,    \* errgroup's err (set once)
    botGroupDone,   \* the group's derived context was cancelled by the group
    botCallerDone,  \* the context passed to Start was cancelled by the caller
    botCancelLive,  \* history: the workers that were running when it was
    botRetOrder,    \* history: worker indexes in the order runBot returned
    botResult       \* the error Start returned

clusterVars == <<numNodes, clNodes, nodeId, builds>>
callVars == <<callPc, callOp, callSaw, callSeen>>
initVars == <<initPc, initI, enodeUrls, nodeInited, staticPushed, staticNodes,
              initCalls, initResult>>
runVars == <<runPc, runI, nodeRun, nodeRet, nodeWhy, runGroupErr, runGroupDone,
             runCallerDone, runCancelLive, runRetOrder, runResult>>
botCfgVars == <<numAccounts, cfgTPS, cfgClientCount>>
botSetupVars == <<clientCount, poolLen, factoryCalls, delay, startDelay>>
botLoopVars == <<botI, botTimerFired, botElapsed>>
botGroupVars == <<botGroupErr, botGroupDone, botCallerDone, botCancelLive,
                  botRetOrder>>
wVars == <<wPc, wPrev, wCallCtx, wRet, wAcc, wClient, wPhase, wInFlight>>
botVars == <<botCfgVars, botSetupVars, botPc, botLoopVars, botGroupVars,
             botResult, wVars>>
nonBotVars == <<clusterVars, callVars, initVars, runVars>>
vars == <<clusterVars, callVars, initVars, runVars, botVars>>

----------------------------------------------------------------------------
\* Errors.  who is the node or worker the error comes from (-1: none);
\* cause is "ctx" when the error is, or wraps (%w), context.Canceled.

NoErr == [kind |-> "nil", who |-> -1, cause |-> "none"]

Canceled == [kind |-> "context.Canceled", who |-> -1, cause |-> "ctx"]

InitializationError(k) == [kind |-> "InitializationError", who |-> k, cause |-> "fatal"]

LookupError(k) == [kind |-> "LookupError", who |-> k, cause |-> "fatal"]

TopologyError(k) == [kind |-> "TopologyError", who |-> k, cause |-> "fatal"]

ProcessRunError(k) == [kind |-> "ProcessRunError", who |-> k, cause |-> "fatal"]

\* fmt.Errorf("Error sending transaction: %w", err)
SendError(w, c) == [kind |-> "Error sending transaction", who |-> w, cause |-> c]

\* fmt.Errorf("Error waitin for tx: %w", err)
MinedError(w, c) == [kind |-> "Error waitin for tx", who |-> w, cause |-> c]

\* The error cfg.ClientFactory() returned.
FactoryError == [kind |-> "ClientFactory error", who |-> -1, cause |-> "fatal"]

\* errors.Is(e, context.Canceled)
IsCancel(e) == e.cause = "ctx"

IsFatal(e) == e.cause = "fatal"

----------------------------------------------------------------------------
\* Cluster

NodeIdx == 0 .. (numNodes - 1)

\* Network identifiers; 0 is the empty string of a fresh enodeUrls slot.
Ids == 1 .. MaxNodes

\* s[lo:hi] of a 0-based slice, as a sequence.
Slice(s, lo, hi) == [k \in 1 .. (hi - lo) |-> s[lo + k - 1]]

\* Faulty variant of PeerUrls: the later nodes come before the earlier ones.
PeerUrlsLaterFirst(urls, i, n) == Slice(urls, i + 1, n) \o Slice(urls, 0, i)

\* Faulty variant of PeerUrls: the node's own identifier is not left out.
PeerUrlsWithSelf(urls, i, n) == Slice(urls, 0, n)

\* urls = append(append(nil, enodeUrls[:i]...), enodeUrls[i+1:]...)
PeerUrls(urls, i, n) == Slice(urls, 0, i) \o Slice(urls, i + 1, n)

\* cl.nodes of a Cluster that New made: nil.
NilNodes == [gen |-> 0, len |-> 0]

\* cl.nodes = make([]*Node, len(validators)) and its filling with NewNode: the
\* g-th slice built, of n new nodes.  Two slices hold the same node instances
\* only if they are the same build.
BuiltNodes(g, n) == [gen |-> g, len |-> n]

\* Faulty variant of NeedsBuild: the nodes are built on every call.
NeedsBuildAlways(nodes) == TRUE

\* if cl.nodes == nil
NeedsBuild(nodes) == nodes.gen = 0

\* cl.ensureNodes() as one step (no other goroutine uses the Cluster): builds
\* cl.nodes on first use.
EnsureNodes ==
    /\ clNodes' = IF NeedsBuild(clNodes)
                     THEN BuiltNodes(builds + 1, numNodes)
                     ELSE clNodes
    /\ builds' = IF NeedsBuild(clNodes) THEN builds + 1 ELSE builds

Callers == 1 .. MaxCallers

\* No goroutine is inside an operation of the Cluster.
InitOfCalls ==
    /\ callPc = [c \in Callers |-> "idle"]
    /\ callOp = [c \in Callers |-> "none"]
    /\ callSaw = [c \in Callers |-> NilNodes]
    /\ callSeen = <<>>

InitCluster ==
    /\ numNodes \in 0 .. MaxNodes
    /\ clNodes = NilNodes
    /\ builds = 0
    /\ nodeId \in [0 .. (numNodes - 1) -> Ids]
    /\ InitOfCalls

InitOfInit ==
    /\ initPc = "start"
    /\ initI = 0
    /\ enodeUrls = [i \in 0 .. (numNodes - 1) |-> 0]
    /\ nodeInited = [i \in 0 .. (numNodes - 1) |-> FALSE]
    /\ staticPushed = [i \in 0 .. (numNodes - 1) |-> FALSE]
    /\ staticNodes = [i \in 0 .. (numNodes - 1) |-> <<>>]
    /\ initCalls = <<>>
    /\ initResult = NoErr

\* An entry of the call history: operation op on node i, and whether it succeeded.
Call(op, i, ok) == [op |-> op, node |-> i, ok |-> ok]

\* Init returns err.
InitReturn(err) ==
    /\ initPc' = "done"
    /\ initResult' = err

\* nodes := cl.ensureNodes(); enodeUrls := make([]string, len(nodes))
InitBegin ==
    /\ initPc = "start"
    /\ EnsureNodes
    /\ enodeUrls' = [i \in NodeIdx |-> 0]
    /\ IF numNodes = 0
          THEN InitReturn(NoErr)
          ELSE initPc' = "init" /\ initResult' = initResult
    /\ UNCHANGED <<runVars, botVars, callVars, numNodes, nodeId, initI, nodeInited,
                   staticPushed, staticNodes, initCalls>>

\* Faulty variant of AfterEnode: the loop does not move on to the next node.
AfterEnodeSameNode == initPc' = "init" /\ initI' = initI

\* The end of the first loop's body for node i: the next node, or the second loop.
AfterEnode ==
    IF initI + 1 < numNodes
       THEN initPc' = "init" /\ initI' = initI + 1
       ELSE initPc' = "peers" /\ initI' = 0

\* Faulty variant of InitLoopFailure: the loop goes on (continue) instead of
\* returning.
InitLoopFailureContinue(err) ==
    /\ AfterEnode
    /\ initResult' = initResult

\* if err != nil { return err } in the first loop (lines 46-48 and 51-53).
InitLoopFailure(err) ==
    /\ InitReturn(err)
    /\ initI' = initI

\* node.Init(cl.env.GenesisPath()) succeeds.
NodeInitOk ==
    /\ initPc = "init"
    /\ nodeInited' = [nodeInited EXCEPT ![initI] = TRUE]
    /\ initCalls' = Append(initCalls, Call("Init", initI, TRUE))
    /\ initPc' = "enode"
    /\ UNCHANGED <<runVars, botVars, clusterVars, callVars, initI, enodeUrls,
                   staticPushed, staticNodes, initResult>>

\* node.Init fails: return err.
NodeInitFail ==
    /\ initPc = "init"
    /\ initCalls' = Append(initCalls, Call("Init", initI, FALSE))
    /\ InitLoopFailure(InitializationError(initI))
    /\ UNCHANGED <<runVars, botVars, clusterVars, callVars, enodeUrls, nodeInited,
                   staticPushed, staticNodes>>

\* Faulty variant of EnodeStored: node i is peered inside the first loop,
\* before the later nodes are initialized.
EnodeStoredPeersEarly ==
    /\ initPc' = "peers"
    /\ initI' = initI

\* The first loop's body is over for this node (line 54).
EnodeStored == AfterEnode

\* enodeUrls[i], err = node.EnodeURL() succeeds.
EnodeURLOk ==
    /\ initPc = "enode"
    /\ enodeUrls' = [enodeUrls EXCEPT ![initI] = nodeId[initI]]
    /\ initCalls' = Append(initCalls, Call("EnodeURL", initI, TRUE))
    /\ EnodeStored
    /\ UNCHANGED <<runVars, botVars, clusterVars, callVars, nodeInited, staticPushed,
                   staticNodes, initResult>>

\* node.EnodeURL() fails: return err.
EnodeURLFail ==
    /\ initPc = "enode"
    /\ initCalls' = Append(initCalls, Call("EnodeURL", initI, FALSE))
    /\ InitLoopFailure(LookupError(initI))
    /\ UNCHANGED <<runVars, botVars, clusterVars, callVars, enodeUrls, nodeInited,
                   staticPushed, staticNodes>>

\* Faulty variant of PeerLoopFailure: the remaining nodes are still peered.
PeerLoopFailureContinue(err) ==
    IF initI + 1 < numNodes
       THEN initPc' = "peers" /\ initI' = initI + 1 /\ initResult' = err
       ELSE InitReturn(err) /\ initI' = initI

\* if err != nil { return err } in the second loop (lines 62-64).
PeerLoopFailure(err) ==
    /\ InitReturn(err)
    /\ initI' = initI

\* node.SetStaticNodes(urls...) succeeds.
SetStaticNodesOk ==
    /\ initPc = "peers"
    /\ staticNodes' = [staticNodes EXCEPT
                          ![initI] = PeerUrls(enodeUrls, initI, numNodes)]
    /\ staticPushed' = [staticPushed EXCEPT ![initI] = TRUE]
    /\ initCalls' = Append(initCalls, Call("SetStaticNodes", initI, TRUE))
    /\ IF initI + 1 < numNodes
          THEN initPc' = "peers" /\ initI' = initI + 1 /\ initResult' = initResult
          ELSE InitReturn(NoErr) /\ initI' = initI
    /\ UNCHANGED <<runVars, botVars, clusterVars, callVars, enodeUrls, nodeInited>>

\* node.SetStaticNodes(urls...) fails: return err.
SetStaticNodesFail ==
    /\ initPc = "peers"
    /\ initCalls' = Append(initCalls, Call("SetStaticNodes", initI, FALSE))
    /\ PeerLoopFailure(TopologyError(initI))
    /\ UNCHANGED <<runVars, botVars, clusterVars, callVars, enodeUrls, nodeInited,
                   staticPushed, staticNodes>>

\* Cluster.Init, one step.
NextInit ==
    \/ InitBegin
    \/ NodeInitOk
    \/ NodeInitFail
    \/ EnodeURLOk
    \/ EnodeURLFail
    \/ SetStaticNodesOk
    \/ SetStaticNodesFail

----------------------------------------------------------------------------
\* Cluster.Run

InitOfRun ==
    /\ runPc = "start"
    /\ runI = 0
    /\ nodeRun = [i \in 0 .. (numNodes - 1) |-> "idle"]
    /\ nodeRet = [i \in 0 .. (numNodes - 1) |-> NoErr]
    /\ nodeWhy = [i \in 0 .. (numNodes - 1) |-> "none"]
    /\ runGroupErr = NoErr
    /\ runGroupDone = FALSE
    /\ runCallerDone = FALSE
    /\ runCancelLive = {}
    /\ runRetOrder = <<>>
    /\ runResult = NoErr

\* Faulty variant of RunCtxDone: the nodes are run under a context that does
\* not descend from the caller's.
RunCtxDoneDetached == runGroupDone

\* ctx.Done() of the context the nodes run under: group, ctx :=
\* errgroup.WithContext(ctx) derives it from the caller's, and the group
\* cancels it on the first error.
RunCtxDone == runCallerDone \/ runGroupDone

\* Faulty variant of GroupRecord: every error overwrites the recorded one.
GroupRecordLast(gerr, err) == IF err # NoErr THEN err ELSE gerr

\* errgroup's g.errOnce.Do(func() { g.err = err; cancel() }): the first
\* non-nil error a task returns is kept.
GroupRecord(gerr, err) == IF gerr = NoErr THEN err ELSE gerr

\* Faulty variant of GroupCancels: any task that returns cancels the group.
GroupCancelsOnReturn(done, err) == TRUE

\* Faulty variant of GroupCancels: a task's error does not cancel the group.
GroupCancelsNever(done, err) == done

\* errgroup cancels the derived context when a task returns a non-nil error.
GroupCancels(done, err) == done \/ err # NoErr

\* Faulty variant of GroupWaitResult: the group's error is dropped.
GroupWaitResultNil(gerr) == NoErr

\* return group.Wait(): the recorded error.
GroupWaitResult(gerr) == gerr

\* for i, node := range cl.ensureNodes(): the loop is entered.
RunBegin ==
    /\ runPc = "start"
    /\ EnsureNodes
    /\ runPc' = IF numNodes = 0 THEN "wait" ELSE "spawn"
    /\ UNCHANGED <<initVars, botVars, callVars, numNodes, nodeId, runI, nodeRun,
                   nodeRet, nodeWhy, runGroupErr, runGroupDone, runCallerDone,
                   runCancelLive, runRetOrder, runResult>>

\* group.Go(func() error { return node.Run(ctx) }) for node i.
RunSpawn ==
    /\ runPc = "spawn"
    /\ nodeRun' = [nodeRun EXCEPT ![runI] = "running"]
    /\ runI' = runI + 1
    /\ runPc' = IF runI + 1 < numNodes THEN "spawn" ELSE "wait"
    /\ UNCHANGED <<initVars, botVars, clusterVars, callVars, nodeRet, nodeWhy,
                   runGroupErr, runGroupDone, runCallerDone, runCancelLive,
                   runRetOrder, runResult>>

\* The task of node n ends with err: what the group does with it.
NodeTaskReturns(n, err, why) ==
    /\ nodeRun' = [nodeRun EXCEPT ![n] = "returned"]
    /\ nodeRet' = [nodeRet EXCEPT ![n] = err]
    /\ nodeWhy' = [nodeWhy EXCEPT ![n] = why]
    /\ runRetOrder' = Append(runRetOrder, n)
    /\ runGroupErr' = GroupRecord(runGroupErr, err)
    /\ runGroupDone' = GroupCancels(runGroupDone, err)
    /\ UNCHANGED <<initVars, botVars, clusterVars, callVars, runPc, runI, runCallerDone,
                   runCancelLive, runResult>>

\* node.Run: the process exits cleanly by itself.
NodeRunExits(n) ==
    /\ nodeRun[n] = "running"
    /\ NodeTaskReturns(n, NoErr, "exit")

\* node.Run: the process exits abnormally.
NodeRunFails(n) ==
    /\ nodeRun[n] = "running"
    /\ NodeTaskReturns(n, ProcessRunError(n), "fail")

\* node.Run: the context is done and the node shuts down, cleanly or not.
NodeRunCancelled(n) ==
    /\ nodeRun[n] = "running"
    /\ RunCtxDone
    /\ \E err \in {NoErr, ProcessRunError(n)} : NodeTaskReturns(n, err, "cancel")

\* The caller cancels the context it passed to Run.
RunCallerCancels ==
    /\ runPc # "done"
    /\ ~runCallerDone
    /\ runCallerDone' = TRUE
    /\ runCancelLive' = {n \in NodeIdx : nodeRun[n] = "running"}
    /\ UNCHANGED <<initVars, botVars, clusterVars, callVars, runPc, runI, nodeRun,
                   nodeRet, nodeWhy, runGroupErr, runGroupDone, runRetOrder,
                   runResult>>

\* Faulty variant of RunWait: Run returns without waiting for the tasks.
RunWaitEarly ==
    /\ runPc = "wait"
    /\ runResult' = GroupWaitResult(runGroupErr)
    /\ runGroupDone' = TRUE
    /\ runPc' = "done"
    /\ UNCHANGED <<initVars, botVars, clusterVars, callVars, runI, nodeRun, nodeRet,
                   nodeWhy, runGroupErr, runCallerDone, runCancelLive,
                   runRetOrder>>

\* return group.Wait(): every task has returned; Wait cancels the context.
RunWait ==
    /\ runPc = "wait"
    /\ \A n \in NodeIdx : nodeRun[n] = "returned"
    /\ runResult' = GroupWaitResult(runGroupErr)
    /\ runGroupDone' = TRUE
    /\ runPc' = "done"
    /\ UNCHANGED <<initVars, botVars, clusterVars, callVars, runI, nodeRun, nodeRet,
                   nodeWhy, runGroupErr, runCallerDone, runCancelLive,
                   runRetOrder>>

\* Cluster.Run, one step.
NextRun ==
    \/ RunBegin
    \/ RunSpawn
    \/ \E n \in NodeIdx : NodeRunExits(n)
    \/ \E n \in NodeIdx : NodeRunFails(n)
    \/ \E n \in NodeIdx : NodeRunCancelled(n)
    \/ RunCallerCancels
    \/ RunWait

----------------------------------------------------------------------------
\* Callers of Init, Run and PrintNodeInfo: cl.ensureNodes() step by step

\* The operations that begin with cl.ensureNodes().
Ops == {"Init", "Run", "PrintNodeInfo"}

\* Goroutine c invokes op, which calls cl.ensureNodes().
CallBegin(c, op) ==
    /\ callPc[c] = "idle"
    /\ Len(callSeen) + Cardinality({d \in Callers : callPc[d] # "idle"}) < MaxCalls
    /\ callPc' = [callPc EXCEPT ![c] = "check"]
    /\ callOp' = [callOp EXCEPT ![c] = op]
    /\ UNCHANGED <<clusterVars, initVars, runVars, botVars, callSaw, callSeen>>

\* Goroutine c invokes op while no other goroutine is inside an operation.
CallBeginSequential(c, op) ==
    /\ \A d \in Callers : callPc[d] = "idle"
    /\ CallBegin(c, op)

\* if cl.nodes == nil, read by goroutine c.
EnsureCheck(c) ==
    /\ callPc[c] = "check"
    /\ callPc' = [callPc EXCEPT ![c] = IF NeedsBuild(clNodes) THEN "build" ELSE "ret"]
    /\ UNCHANGED <<clusterVars, initVars, runVars, botVars, callOp, callSaw,
                   callSeen>>

\* The body of the if: cl.nodes = make(...), filled with NewNode(nodeConfig).
EnsureBuild(c) ==
    /\ callPc[c] = "build"
    /\ clNodes' = BuiltNodes(builds + 1, numNodes)
    /\ builds' = builds + 1
    /\ callPc' = [callPc EXCEPT ![c] = "ret"]
    /\ UNCHANGED <<initVars, runVars, botVars, numNodes, nodeId, callOp,
                   callSaw, callSeen>>

\* return cl.nodes: the operation of goroutine c goes on with these nodes.
EnsureReturn(c) ==
    /\ callPc[c] = "ret"
    /\ callSaw' = [callSaw EXCEPT ![c] = clNodes]
    /\ callSeen' = Append(callSeen, [op |-> callOp[c], nodes |-> clNodes])
    /\ callPc' = [callPc EXCEPT ![c] = "idle"]
    /\ UNCHANGED <<clusterVars, initVars, runVars, botVars, callOp>>

\* Operations invoked one after the other.
NextCallsSequential ==
    \/ \E c \in Callers, op \in Ops : CallBeginSequential(c, op)
    \/ \E c \in Callers : EnsureCheck(c)
    \/ \E c \in Callers : EnsureBuild(c)
    \/ \E c \in Callers : EnsureReturn(c)

\* Operations invoked by goroutines that run concurrently.
NextCallsConcurrent ==
    \/ \E c \in Callers, op \in Ops : CallBegin(c, op)
    \/ \E c \in Callers : EnsureCheck(c)
    \/ \E c \in Callers : EnsureBuild(c)
    \/ \E c \in Callers : EnsureReturn(c)

----------------------------------------------------------------------------
\* LoadBot

AccIdx == 0 .. (numAccounts - 1)

\* Start has been called with cfg and has made its group.
InitOfBot ==
    /\ clientCount = 0
    /\ poolLen = 0
    /\ factoryCalls = 0
    /\ delay = -1
    /\ startDelay = -1
    /\ botPc = "start"
    /\ botI = 0
    /\ botTimerFired = FALSE
    /\ botElapsed = 0
    /\ wPc = [i \in 0 .. (numAccounts - 1) |-> "idle"]
    /\ wPrev = [i \in 0 .. (numAccounts - 1) |-> "idle"]
    /\ wCallCtx = [i \in 0 .. (numAccounts - 1) |-> FALSE]
    /\ wRet = [i \in 0 .. (numAccounts - 1) |-> NoErr]
    /\ wAcc = [i \in 0 .. (numAccounts - 1) |-> -1]
    /\ wClient = [i \in 0 .. (numAccounts - 1) |-> -1]
    /\ wPhase = [i \in 0 .. (numAccounts - 1) |-> 0]
    /\ wInFlight = [i \in 0 .. (numAccounts - 1) |-> 0]
    /\ botGroupErr = NoErr
    /\ botGroupDone = FALSE
    /\ botCallerDone = FALSE
    /\ botCancelLive = {}
    /\ botRetOrder = <<>>
    /\ botResult = NoErr

\* Faulty variant of BotCtxDone: the workers are run under a context that does
\* not descend from the caller's.
BotCtxDoneDetached == botGroupDone

\* ctx.Done() of the context Start's loop and the workers use: group, ctx :=
\* errgroup.WithContext(ctx).
BotCtxDone == botCallerDone \/ botGroupDone

\* Faulty variant of ClampClientCount: the configured count is used as it is.
ClampClientCountNone(c) == c

\* clientCount := cfg.ClientCount; if clientCount > clientCap { clientCount =
\* clientCap }
ClampClientCount(c) == IF c > clientCap THEN clientCap ELSE c

\* Faulty variant of DelayMs: the quotient is rounded up before it is scaled.
DelayMsRoundedUp(a, tps) == ((((a * 1000) + tps - 1) \div tps) * 19) \div 20

\* int(float64(len(cfg.Accounts)*1000/cfg.TransactionsPerSecond)*0.95): the
\* quotient is an int division, and the conversion of the product to int drops
\* the fraction.  0.95 is the nearest double to 19/20, and for every int q of
\* this size the double nearest to q*0.95 has the integer part of q*19/20.
DelayMs(a, tps) == (((a * 1000) \div tps) * 19) \div 20

\* startDelay := delay / time.Duration(len(cfg.Accounts)), both in nanoseconds:
\* the int64 quotient (d * Millisecond) / a, computed from the quotient and
\* the remainder of d by a so that no intermediate value leaves 32 bits.
StartDelayNs(d, a) == (d \div a) * Millisecond + ((d % a) * Millisecond) \div a

\* Faulty variant of ClientIndex: the account index is used as the client's.
ClientIndexOfAccount(i, n) == i

\* clients[i%clientCount]: the index of account i's client.
ClientIndex(i, n) == i % n

\* Faulty variant of CapturedAcc: every worker's closure reads one shared
\* variable, which holds the first account.
CapturedAccShared(i) == 0

\* acc := acc: the closure of iteration i has its own copy of account i.
CapturedAcc(i) == i

\* Faulty variant of WaitForReturnsNil: waitFor returns at once.
WaitForReturnsNilAtOnce(fired) == TRUE

\* waitFor: case <-time.After(waitTime): return nil.
WaitForReturnsNil(fired) == fired

\* txSentTime := time.Now(): the clock against txSentTime + d at that moment.
PhaseAtSend(d) == IF d = 0 THEN 1 ELSE 0

\* Faulty variant of IsLate: the worker never sleeps.
IsLateAlways(phase) == TRUE

\* Faulty variant of IsLate: the worker always sleeps.
IsLateNever(phase) == FALSE

\* time.Now().After(nextSendTime)
IsLate(phase) == phase = 2

\* Faulty variant of AfterSendOk: the worker sends again without waiting for
\* the transaction to be mined.
AfterSendOkSendAgain == "send"

\* After a successful Send the worker's next call is tx.WaitMined(ctx).
AfterSendOk == "mined"

\* Start panics (index or cap out of range, integer divide by zero).
StartPanics ==
    /\ botPc' = "panic"
    /\ UNCHANGED <<botLoopVars, wVars>>

\* Lines 43-48: the size of the client pool, and the empty pool.
StartClientCount ==
    /\ botPc = "start"
    /\ clientCount' = ClampClientCount(cfgClientCount)
    /\ botPc' = IF clientCount' < 0 THEN "panic" ELSE "clients"
    /\ UNCHANGED <<nonBotVars, botCfgVars, poolLen, factoryCalls, delay,
                   startDelay, botLoopVars, botGroupVars, botResult, wVars>>

\* client, err := cfg.ClientFactory() returns a client;
\* clients = append(clients, client).
StartClientOk ==
    /\ botPc = "clients"
    /\ poolLen < clientCount
    /\ poolLen' = poolLen + 1
    /\ factoryCalls' = factoryCalls + 1
    /\ UNCHANGED <<nonBotVars, botCfgVars, clientCount, delay, startDelay,
                   botPc, botLoopVars, botGroupVars, botResult, wVars>>

\* Faulty variant of StartClientFails: the loop goes on after the error.
StartClientFailsContinue ==
    /\ botPc = "clients"
    /\ poolLen < clientCount
    /\ factoryCalls' = factoryCalls + 1
    /\ poolLen' = poolLen + 1
    /\ botResult' = FactoryError
    /\ UNCHANGED <<nonBotVars, botCfgVars, clientCount, delay, startDelay,
                   botPc, botLoopVars, botGroupVars, wVars>>

\* cfg.ClientFactory() returns an error: return err.
StartClientFails ==
    /\ botPc = "clients"
    /\ poolLen < clientCount
    /\ factoryCalls' = factoryCalls + 1
    /\ botResult' = FactoryError
    /\ botPc' = "done"
    /\ UNCHANGED <<nonBotVars, botCfgVars, clientCount, poolLen, delay,
                   startDelay, botLoopVars, botGroupVars, wVars>>

\* Lines 59-66 once the pool is complete: delay, startDelay, the first
\* iteration's client := clients[i%clientCount] and the start of its waitFor.
StartPacing ==
    /\ botPc = "clients"
    /\ poolLen >= clientCount
    /\ IF cfgTPS = 0
          THEN /\ StartPanics
               /\ UNCHANGED <<delay, startDelay>>
          ELSE /\ delay' = DelayMs(numAccounts, cfgTPS)
               /\ IF numAccounts = 0
                     THEN /\ StartPanics
                          /\ UNCHANGED startDelay
                     ELSE /\ startDelay' = StartDelayNs(delay', numAccounts)
                          /\ IF clientCount = 0
                                THEN StartPanics
                                ELSE /\ botPc' = "launch"
                                     /\ botTimerFired' = (startDelay' = 0)
                                     /\ botElapsed' = IF startDelay' = 0 THEN 1 ELSE 0
                                     /\ UNCHANGED <<botI, wVars>>
    /\ UNCHANGED <<nonBotVars, botCfgVars, clientCount, poolLen, factoryCalls,
                   botGroupVars, botResult>>

\* The timer of Start's waitFor(ctx, startDelay) fires: one more stagger
\* interval has gone by.
StartTimerFires ==
    /\ botPc = "launch"
    /\ ~botTimerFired
    /\ botTimerFired' = TRUE
    /\ botElapsed' = botElapsed + 1
    /\ UNCHANGED <<nonBotVars, botCfgVars, botSetupVars, botPc, botI,
                   botGroupVars, botResult, wVars>>

\* err := waitFor(ctx, startDelay) returns nil (the timer fired);
\* group.Go(func() error { return runBot(ctx, acc, delay, client, nextTransfer) }):
\* the worker is in its first Send.  Then the next iteration's client and
\* waitFor, or the end of the loop.
StartWaitForElapsed ==
    /\ botPc = "launch"
    /\ WaitForReturnsNil(botTimerFired)
    /\ wPc' = [wPc EXCEPT ![botI] = "send"]
    /\ wPrev' = [wPrev EXCEPT ![botI] = "idle"]
    /\ wCallCtx' = [wCallCtx EXCEPT ![botI] = BotCtxDone]
    /\ wAcc' = [wAcc EXCEPT ![botI] = CapturedAcc(botI)]
    /\ wClient' = [wClient EXCEPT ![botI] = ClientIndex(botI, clientCount)]
    /\ wPhase' = [wPhase EXCEPT ![botI] = PhaseAtSend(delay)]
    /\ botI' = botI + 1
    /\ IF botI + 1 < numAccounts
          THEN /\ botPc' = "launch"
               /\ botTimerFired' = (startDelay = 0)
               /\ botElapsed' = IF startDelay = 0 THEN botElapsed + 1 ELSE botElapsed
          ELSE /\ botPc' = "wait"
               /\ UNCHANGED <<botTimerFired, botElapsed>>
    /\ UNCHANGED <<nonBotVars, botCfgVars, botSetupVars, botGroupVars,
                   botResult, wRet, wInFlight>>

\* err := waitFor(ctx, startDelay) returns ctx.Err(): return err.
StartWaitForCancelled ==
    /\ botPc = "launch"
    /\ BotCtxDone
    /\ botResult' = Canceled
    /\ botPc' = "done"
    /\ UNCHANGED <<nonBotVars, botCfgVars, botSetupVars, botLoopVars,
                   botGroupVars, wVars>>

\* return group.Wait(): every launched worker has returned.
StartWait ==
    /\ botPc = "wait"
    /\ \A w \in AccIdx : wPc[w] = "done"
    /\ botResult' = GroupWaitResult(botGroupErr)
    /\ botGroupDone' = TRUE
    /\ botPc' = "done"
    /\ UNCHANGED <<nonBotVars, botCfgVars, botSetupVars, botLoopVars,
                   botGroupErr, botCallerDone, botCancelLive, botRetOrder,
                   wVars>>

\* Faulty variant of WorkerReturns: the worker notes the error and submits
\* again.
WorkerRetries(w, err) ==
    /\ wPc' = [wPc EXCEPT ![w] = "send"]
    /\ wPrev' = [wPrev EXCEPT ![w] = wPc[w]]
    /\ wRet' = [wRet EXCEPT ![w] = err]
    /\ UNCHANGED <<nonBotVars, botCfgVars, botSetupVars, botPc, botLoopVars,
                   botGroupVars, botResult, wCallCtx, wAcc, wClient, wPhase,
                   wInFlight>>

\* runBot of worker w returns err: what the group does with it.
WorkerReturns(w, err) ==
    /\ wPc' = [wPc EXCEPT ![w] = "done"]
    /\ wPrev' = [wPrev EXCEPT ![w] = wPc[w]]
    /\ wRet' = [wRet EXCEPT ![w] = err]
    /\ botRetOrder' = Append(botRetOrder, w)
    /\ botGroupErr' = GroupRecord(botGroupErr, err)
    /\ botGroupDone' = GroupCancels(botGroupDone, err)
    /\ UNCHANGED <<nonBotVars, botCfgVars, botSetupVars, botPc, botLoopVars,
                   botCallerDone, botCancelLive, botResult, wCallCtx, wAcc,
                   wClient, wPhase, wInFlight>>

\* Worker w goes on to a call that blocks, in position pc.
WorkerCalls(w, pc) ==
    /\ wPc' = [wPc EXCEPT ![w] = pc]
    /\ wPrev' = [wPrev EXCEPT ![w] = wPc[w]]
    /\ wCallCtx' = [wCallCtx EXCEPT ![w] = BotCtxDone]
    /\ UNCHANGED <<nonBotVars, botCfgVars, botSetupVars, botPc, botLoopVars,
                   botGroupVars, botResult, wRet, wAcc, wClient>>

\* The top of runBot's loop: txSentTime := time.Now(), then Send.
WorkerNextCycle(w) ==
    /\ WorkerCalls(w, "send")
    /\ wPhase' = [wPhase EXCEPT ![w] = PhaseAtSend(delay)]

\* tx, err := ...Send() returns a transaction; the worker goes on to WaitMined.
\* The clock is in phase p by then.
SendOk(w) ==
    /\ wPc[w] = "send"
    /\ ~wCallCtx[w]
    /\ WorkerCalls(w, AfterSendOk)
    /\ wInFlight' = [wInFlight EXCEPT ![w] = wInFlight[w] + 1]
    /\ \E p \in wPhase[w] .. 2 : wPhase' = [wPhase EXCEPT ![w] = p]

\* Send fails with an error that is not the context's.
SendFails(w) ==
    /\ wPc[w] = "send"
    /\ ~wCallCtx[w]
    /\ WorkerReturns(w, SendError(w, "fatal"))

\* Send fails with the context's error.
SendCancelled(w) ==
    /\ wPc[w] = "send"
    /\ BotCtxDone
    /\ WorkerReturns(w, SendError(w, "ctx"))

\* tx.WaitMined(ctx) returns and time.Now().After(nextSendTime): continue.
MinedLate(w) ==
    /\ wPc[w] = "mined"
    /\ ~wCallCtx[w]
    /\ IsLate(wPhase[w])
    /\ WorkerNextCycle(w)
    /\ wInFlight' = [wInFlight EXCEPT ![w] = wInFlight[w] - 1]

\* tx.WaitMined(ctx) returns and time.Now().After(nextSendTime) is false:
\* waitFor(ctx, time.Until(nextSendTime)).  time.Until reads the clock again,
\* in phase p: the duration asked for is positive (0), zero (1) or negative (2).
MinedInTime(w) ==
    /\ wPc[w] = "mined"
    /\ ~wCallCtx[w]
    /\ ~IsLate(wPhase[w])
    /\ WorkerCalls(w, "pace")
    /\ \E p \in wPhase[w] .. 2 : wPhase' = [wPhase EXCEPT ![w] = p]
    /\ wInFlight' = [wInFlight EXCEPT ![w] = wInFlight[w] - 1]

\* WaitMined fails with an error that is not the context's.
MinedFails(w) ==
    /\ wPc[w] = "mined"
    /\ ~wCallCtx[w]
    /\ WorkerReturns(w, MinedError(w, "fatal"))

\* WaitMined fails with the context's error.
MinedCancelled(w) ==
    /\ wPc[w] = "mined"
    /\ BotCtxDone
    /\ WorkerReturns(w, MinedError(w, "ctx"))

\* Faulty variant of PaceElapsed: the pacing sleep ends before its timer fires.
PaceElapsedEarly(w) ==
    /\ wPc[w] = "pace"
    /\ WorkerNextCycle(w)
    /\ UNCHANGED wInFlight

\* waitFor returns nil (the timer fired, at nextSendTime or later): the next
\* cycle's Send.
PaceElapsed(w) ==
    /\ wPc[w] = "pace"
    /\ WaitForReturnsNil(wPhase[w] >= 1)
    /\ WorkerNextCycle(w)
    /\ UNCHANGED wInFlight

\* Faulty variant of PaceCancelled: a cancelled pacing sleep ends the worker
\* with nil.
PaceCancelledNil(w) ==
    /\ wPc[w] = "pace"
    /\ BotCtxDone
    /\ WorkerReturns(w, NoErr)

\* waitFor returns ctx.Err(): return err.
PaceCancelled(w) ==
    /\ wPc[w] = "pace"
    /\ BotCtxDone
    /\ WorkerReturns(w, Canceled)

\* Time goes by while worker w is in WaitMined: the clock reaches, or passes,
\* txSentTime + delay.
DeadlinePasses(w) ==
    /\ wPc[w] = "mined"
    /\ wPhase[w] < 2
    /\ \E p \in (wPhase[w] + 1) .. 2 : wPhase' = [wPhase EXCEPT ![w] = p]
    /\ UNCHANGED <<nonBotVars, botCfgVars, botSetupVars, botPc, botLoopVars,
                   botGroupVars, botResult, wPc, wPrev, wCallCtx, wRet, wAcc,
                   wClient, wInFlight>>

\* Time goes by while worker w is in waitFor: the clock reaches nextSendTime
\* and the timer fires.
PaceTimerFires(w) ==
    /\ wPc[w] = "pace"
    /\ wPhase[w] = 0
    /\ wPhase' = [wPhase EXCEPT ![w] = 1]
    /\ UNCHANGED <<nonBotVars, botCfgVars, botSetupVars, botPc, botLoopVars,
                   botGroupVars, botResult, wPc, wPrev, wCallCtx, wRet, wAcc,
                   wClient, wInFlight>>

\* One step of worker w.
WorkerStep(w) ==
    \/ SendOk(w)
    \/ SendFails(w)
    \/ SendCancelled(w)
    \/ MinedLate(w)
    \/ MinedInTime(w)
    \/ MinedFails(w)
    \/ MinedCancelled(w)
    \/ PaceElapsed(w)
    \/ PaceCancelled(w)

\* The caller cancels the context it passed to Start.
BotCallerCancels ==
    /\ botPc \notin {"done", "panic"}
    /\ ~botCallerDone
    /\ botCallerDone' = TRUE
    /\ botCancelLive' = {w \in AccIdx : wPc[w] \in {"send", "mined", "pace"}}
    /\ UNCHANGED <<nonBotVars, botCfgVars, botSetupVars, botPc, botLoopVars,
                   botGroupErr, botGroupDone, botRetOrder, botResult, wVars>>

\* One step of Start.
StartStep ==
    \/ StartClientCount
    \/ StartClientOk
    \/ StartClientFails
    \/ StartPacing
    \/ StartTimerFires
    \/ StartWaitForElapsed
    \/ StartWaitForCancelled
    \/ StartWait

\* Start up to its launch loop.
NextSetup ==
    \/ StartClientCount
    \/ StartClientOk
    \/ StartClientFails
    \/ StartPacing

\* LoadBot, one step.
NextBot ==
    \/ StartClientCount
    \/ StartClientOk
    \/ StartClientFails
    \/ StartPacing
    \/ StartTimerFires
    \/ StartWaitForElapsed
    \/ StartWaitForCancelled
    \/ StartWait
    \/ \E w \in AccIdx : SendOk(w)
    \/ \E w \in AccIdx : SendFails(w)
    \/ \E w \in AccIdx : SendCancelled(w)
    \/ \E w \in AccIdx : MinedLate(w)
    \/ \E w \in AccIdx : MinedInTime(w)
    \/ \E w \in AccIdx : MinedFails(w)
    \/ \E w \in AccIdx : MinedCancelled(w)
    \/ \E w \in AccIdx : PaceElapsed(w)
    \/ \E w \in AccIdx : PaceCancelled(w)
    \/ \E w \in AccIdx : DeadlinePasses(w)
    \/ \E w \in AccIdx : PaceTimerFires(w)
    \/ BotCallerCancels

----------------------------------------------------------------------------
\* Specifications

\* The variables of the parts a specification leaves alone.
IdleCluster ==
    /\ numNodes = 0
    /\ clNodes = NilNodes
    /\ builds = 0
    /\ nodeId = <<>>
    /\ InitOfCalls

IdleBot == numAccounts = 0 /\ cfgTPS = 0 /\ cfgClientCount = 0 /\ InitOfBot

\* Cluster.Init alone.
Init == InitCluster /\ InitOfInit /\ InitOfRun /\ IdleBot

Next == NextInit

Spec == Init /\ [][Next]_vars

\* Cluster.Run alone; Run never asks a node for its identifier.
InitRun ==
    /\ numNodes \in 0 .. MaxNodes
    /\ clNodes = NilNodes
    /\ builds = 0
    /\ nodeId = [i \in 0 .. (numNodes - 1) |-> i + 1]
    /\ InitOfCalls
    /\ InitOfInit /\ InitOfRun /\ IdleBot

SpecRun == InitRun /\ [][NextRun]_vars

\* Cluster.Run; Run's own goroutine keeps going, and a running node whose
\* context is done returns.
FairSpecRun ==
    /\ SpecRun
    /\ WF_vars(RunBegin \/ RunSpawn \/ RunWait)
    /\ \A n \in 0 .. (MaxNodes - 1) : WF_vars(n \in NodeIdx /\ NodeRunCancelled(n))

\* Start with a configuration it can run: accounts, a pool no larger than
\* their number, and a rate of one transaction per second, or one so high
\* that the delay is 0.
InitBot ==
    /\ IdleCluster /\ InitOfInit /\ InitOfRun
    /\ numAccounts \in 1 .. MaxAccounts
    /\ cfgTPS \in {1, 1000 * numAccounts}
    /\ cfgClientCount \in 1 .. numAccounts
    /\ InitOfBot

\* Start with any configuration, the ones it cannot run included.
InitSetup ==
    /\ IdleCluster /\ InitOfInit /\ InitOfRun
    /\ numAccounts \in 0 .. MaxPacedAccounts
    /\ cfgTPS \in 0 .. MaxTPS
    /\ cfgClientCount \in -1 .. MaxClientCount
    /\ InitOfBot

\* Start up to its launch loop: the client pool and the delays.
SpecSetup == InitSetup /\ [][NextSetup]_vars

\* A fresh Cluster and the operations invoked on it.
InitCallers ==
    /\ numNodes \in 0 .. MaxNodes
    /\ clNodes = NilNodes
    /\ builds = 0
    /\ nodeId = [i \in 0 .. (numNodes - 1) |-> i + 1]
    /\ InitOfCalls
    /\ InitOfInit /\ InitOfRun /\ IdleBot

\* Sequential use of a Cluster.
SpecCallsSequential == InitCallers /\ [][NextCallsSequential]_vars

\* Concurrent use of a Cluster.
SpecCallsConcurrent == InitCallers /\ [][NextCallsConcurrent]_vars

\* LoadBot alone.
SpecBot == InitBot /\ [][NextBot]_vars

\* Start at one transaction per second, with a cfg.ClientCount below, at and
\* above the cap.
InitPool ==
    /\ IdleCluster /\ InitOfInit /\ InitOfRun
    /\ numAccounts \in 1 .. MaxAccounts
    /\ cfgTPS = 1
    /\ cfgClientCount \in {1, clientCap, MaxClientCount}
    /\ InitOfBot

\* LoadBot, the size of its client pool capped or not.
SpecPool == InitPool /\ [][NextBot]_vars

\* Start with one client and a rate of one transaction per second.
InitBotOneClient ==
    /\ IdleCluster /\ InitOfInit /\ InitOfRun
    /\ numAccounts \in 1 .. MaxAccounts
    /\ cfgTPS = 1
    /\ cfgClientCount = 1
    /\ InitOfBot

\* LoadBot; Start's goroutine keeps going (its timers fire), and a worker whose
\* context is done goes on: its blocking call returns.
FairSpecBot ==
    /\ InitBotOneClient /\ [][NextBot]_vars
    /\ WF_vars(StartStep)
    /\ \A w \in 0 .. (MaxAccounts - 1) :
          WF_vars(w \in AccIdx /\ BotCtxDone /\ WorkerStep(w))

----------------------------------------------------------------------------
\* Properties of Cluster.Init (specification Spec)

\* The nodes have pairwise distinct network identifiers.
DistinctIds == \A a, b \in NodeIdx : a # b => nodeId[a] # nodeId[b]

\* The entries of a sequence.
Range(s) == {s[k] : k \in 1 .. Len(s)}

\* The positions of the call history.
CallPos == 1 .. Len(initCalls)

\* C1: for N >= 2 nodes with pairwise distinct identifiers, when Init returns
\* nil every node has been pushed a peer list of exactly N-1 entries that does
\* not hold the node's own identifier.
C1_PeerListSizeAndNoSelf ==
    (initPc = "done" /\ initResult = NoErr /\ numNodes >= 2 /\ DistinctIds)
        => \A i \in NodeIdx :
              /\ staticPushed[i]
              /\ Len(staticNodes[i]) = numNodes - 1
              /\ nodeId[i] \notin Range(staticNodes[i])

C1_Witness ==
    /\ initPc = "done" /\ initResult = NoErr
    /\ numNodes = 3 /\ DistinctIds
    /\ \A i \in NodeIdx : staticPushed[i]

\* C2: nodes are bootstrapped in ascending index order, and when Init or
\* EnodeURL fails on node k, that call is the last call Init makes on any
\* node, no call was made on a node after k, no SetStaticNodes call was made,
\* and Init has returned that error.
C2_InitFailFastOrdered ==
    /\ \A p, q \in CallPos :
          (p < q /\ initCalls[p].op = "Init" /\ initCalls[q].op = "Init")
              => initCalls[p].node < initCalls[q].node
    /\ \A p \in CallPos :
          (~initCalls[p].ok /\ initCalls[p].op \in {"Init", "EnodeURL"})
              => /\ p = Len(initCalls)
                 /\ initPc = "done"
                 /\ initResult = (IF initCalls[p].op = "Init"
                                     THEN InitializationError(initCalls[p].node)
                                     ELSE LookupError(initCalls[p].node))
                 /\ \A q \in CallPos :
                       /\ initCalls[q].node <= initCalls[p].node
                       /\ initCalls[q].op # "SetStaticNodes"

C2_Witness ==
    /\ numNodes = 3
    /\ initPc = "done"
    /\ initResult = InitializationError(1)
    /\ nodeInited[0] /\ ~nodeInited[1] /\ ~nodeInited[2]

\* C3: a SetStaticNodes call is made only after Init and EnodeURL have
\* succeeded on every one of the N nodes.
C3_PeeringFollowsAllInits ==
    \A p \in CallPos :
        initCalls[p].op = "SetStaticNodes"
            => \A n \in NodeIdx :
                  /\ \E q \in 1 .. (p - 1) : initCalls[q] = Call("Init", n, TRUE)
                  /\ \E q \in 1 .. (p - 1) : initCalls[q] = Call("EnodeURL", n, TRUE)

C3_Witness ==
    /\ numNodes = 3
    /\ \E p \in CallPos : initCalls[p].op = "SetStaticNodes"

\* C4: when SetStaticNodes fails on node j, that call is the last call Init
\* makes, Init has returned that error, no SetStaticNodes call was made on a
\* node after j, and the peer lists pushed to nodes 0..j-1 are still in place.
C4_PeeringFailFast ==
    \A p \in CallPos :
        (~initCalls[p].ok /\ initCalls[p].op = "SetStaticNodes")
            => /\ p = Len(initCalls)
               /\ initPc = "done"
               /\ initResult = TopologyError(initCalls[p].node)
               /\ \A i \in NodeIdx :
                     /\ i > initCalls[p].node => ~staticPushed[i]
                     /\ i < initCalls[p].node =>
                           /\ staticPushed[i]
                           /\ staticNodes[i] = PeerUrls(enodeUrls, i, numNodes)
               /\ \A q \in CallPos :
                     initCalls[q].op = "SetStaticNodes"
                         => initCalls[q].node <= initCalls[p].node

C4_Witness ==
    /\ numNodes = 3
    /\ initPc = "done"
    /\ initResult = TopologyError(1)
    /\ staticPushed[0] /\ ~staticPushed[1] /\ ~staticPushed[2]

----------------------------------------------------------------------------
\* Properties of Cluster.Run (specifications SpecRun and FairSpecRun)

\* The nodes whose Run returned an error.
FailedNodes == {n \in NodeIdx : nodeRun[n] = "returned" /\ nodeRet[n] # NoErr}

\* The first node, in the order of return, whose Run returned an error.
FirstFailedNode ==
    runRetOrder[CHOOSE p \in 1 .. Len(runRetOrder) :
                    /\ runRetOrder[p] \in FailedNodes
                    /\ \A q \in 1 .. (p - 1) : runRetOrder[q] \notin FailedNodes]

\* C5: once a node's Run has returned an error the shared context is
\* cancelled, so every node still running is cancelled, and when Run returns
\* it returns the error of the node that failed first, not a later one.
C5_FirstErrorCancelsAndWins ==
    FailedNodes # {}
        => /\ runGroupDone
           /\ RunCtxDone
           /\ runPc = "done" => runResult = nodeRet[FirstFailedNode]

C5_Witness ==
    /\ numNodes = 3
    /\ runPc = "done"
    /\ runRetOrder = <<1, 2, 0>>
    /\ nodeRet[1] = NoErr
    /\ nodeWhy[2] = "fail" /\ nodeWhy[0] = "cancel" /\ nodeRet[0] # NoErr
    /\ runResult = ProcessRunError(2)

\* C6: Run returns nil only if every node's Run returned nil, and a non-nil
\* error whenever some node's Run returned one.
C6_NilOnlyIfAllNil ==
    runPc = "done"
        => /\ runResult = NoErr
                => \A n \in NodeIdx : nodeRun[n] = "returned" /\ nodeRet[n] = NoErr
           /\ FailedNodes # {} => runResult # NoErr

C6_Witness ==
    /\ numNodes = 3
    /\ runPc = "done"
    /\ nodeRet[0] = NoErr /\ nodeRet[1] = NoErr /\ nodeRet[2] # NoErr
    /\ runResult # NoErr

\* C7 as stated: after the caller cancelled the context while nodes were
\* running, Run returns the cancellation error, not nil.
C7_RunReturnsCancellationError ==
    (runPc = "done" /\ runCallerDone /\ runCancelLive # {}) => runResult = Canceled

\* C7, amended: after the caller cancels the context every node task
\* terminates and Run returns; what Run returns is what the nodes returned:
\* nil when every node returned nil, the first node's error otherwise, and
\* never the context's cancellation error.
C7_CancelTerminatesRun ==
    /\ runCallerDone ~> (runPc = "done" /\ \A n \in NodeIdx : nodeRun[n] = "returned")
    /\ [](runPc = "done" /\ runCallerDone
            => /\ ~IsCancel(runResult)
               /\ runResult = NoErr <=> FailedNodes = {}
               /\ FailedNodes # {} => runResult = nodeRet[FirstFailedNode])

C7_Witness ==
    /\ numNodes = 3
    /\ runCallerDone
    /\ runCancelLive = NodeIdx
    /\ runPc = "done"
    /\ \A n \in NodeIdx : nodeWhy[n] = "cancel" /\ nodeRet[n] = NoErr
    /\ runResult = NoErr

----------------------------------------------------------------------------
\* Properties of LoadBot (specifications SpecBot and FairSpecBot)

\* The workers whose runBot returned an error that is not the context's.
FatalWorkers == {w \in AccIdx : wPc[w] = "done" /\ IsFatal(wRet[w])}

\* The first worker, in the order of return, that returned such an error.
FirstFatalWorker ==
    botRetOrder[CHOOSE p \in 1 .. Len(botRetOrder) :
                    /\ botRetOrder[p] \in FatalWorkers
                    /\ \A q \in 1 .. (p - 1) : botRetOrder[q] \notin FatalWorkers]

\* No worker is running: each one has returned or was never launched.
NoWorkerRunning == \A w \in AccIdx : wPc[w] \in {"idle", "done"}

\* C8 as stated: after the caller cancelled the context while workers were
\* running, Start returns the cancellation error.
C8_StartReturnsCancellationError ==
    (botPc = "done" /\ botCallerDone /\ botCancelLive # {}) => IsCancel(botResult)

\* C8, amended: after the caller cancels the context every worker terminates,
\* whichever call it is in, and Start returns; Start then returns a non-nil
\* error, which is the cancellation error (as such or wrapped by a worker)
\* unless the first worker to return failed with another error, which Start
\* then returns.
C8_CancelTerminatesStart ==
    /\ botCallerDone ~> (botPc = "done" /\ NoWorkerRunning)
    /\ [](botPc = "done" /\ botCallerDone /\ botCancelLive # {}
            => /\ botResult # NoErr
               /\ ~IsCancel(botResult)
                     => /\ botRetOrder # <<>>
                        /\ botResult = wRet[botRetOrder[1]]
                        /\ IsFatal(botResult))

C8_Witness ==
    /\ numAccounts = 2
    /\ botCallerDone
    /\ botCancelLive = AccIdx
    /\ botPc = "done"
    /\ wRet[0] = MinedError(0, "ctx")
    /\ wRet[1] = Canceled
    /\ \A w \in AccIdx : wPc[w] = "done"
    /\ IsCancel(botResult)

\* C9: when Start has returned and some worker ended with a submission or
\* confirmation error that is not the context's, Start has returned the first
\* such error.
C9_StartReturnsFirstFatalError ==
    (botPc = "done" /\ FatalWorkers # {}) => botResult = wRet[FirstFatalWorker]

\* C10: once a worker has failed with an error that is not the context's, the
\* shared context is cancelled, and every other worker eventually terminates:
\* from then on the run reaches a state where Start has returned and no worker
\* is running.
C10_FailTogether ==
    /\ [](FatalWorkers # {} => botGroupDone /\ BotCtxDone)
    /\ (FatalWorkers # {}) ~> (botPc = "done" /\ NoWorkerRunning)

C10_Witness ==
    /\ numAccounts = 2
    /\ ~botCallerDone
    /\ botRetOrder = <<1, 0>>
    /\ wRet[1] = MinedError(1, "fatal")
    /\ wRet[0] = Canceled
    /\ botPc = "done"
    /\ botResult = MinedError(1, "fatal")

----------------------------------------------------------------------------
\* Properties of cl.ensureNodes() (specifications SpecCallsSequential and
\* SpecCallsConcurrent)

\* The positions of the history of returned calls.
SeenPos == 1 .. Len(callSeen)

\* C17: under sequential use the node list is built once and reused: every
\* call of Init, Run or PrintNodeInfo gets the same node instances, the list is
\* built at most once, and its length is the number of validators throughout.
C17_NodesBuiltOnceAndReused ==
    /\ builds <= 1
    /\ \A p, q \in SeenPos : callSeen[p].nodes = callSeen[q].nodes
    /\ \A p \in SeenPos :
          /\ callSeen[p].nodes = clNodes
          /\ callSeen[p].nodes.gen = 1
          /\ callSeen[p].nodes.len = numNodes

\* Init, Run and PrintNodeInfo have been called one after the other on a
\* Cluster of two or more validators.
C17_Witness ==
    /\ numNodes >= 2
    /\ Len(callSeen) = 3
    /\ {callSeen[p].op : p \in SeenPos} = Ops

\* The goroutines whose operation has got its nodes from ensureNodes.
Returned == {c \in Callers : callOp[c] # "none" /\ callPc[c] = "idle"}

\* C18: when operations are invoked concurrently on a fresh Cluster, the node
\* list is built exactly once and all callers get the same node instances.
C18_ConcurrentCallersShareNodes ==
    /\ Returned # {} => builds = 1
    /\ \A c, d \in Returned : callSaw[c] = callSaw[d]

----------------------------------------------------------------------------
\* Properties of Start's client pool and delays (specification SpecSetup)

\* The smaller of two integers.
Min(a, b) == IF a < b THEN a ELSE b

\* Start has left the loop that fills the client pool.
PoolBuilt ==
    \/ botPc \in {"launch", "wait"}
    \/ botPc = "panic" /\ clientCount >= 0
    \/ botPc = "done" /\ botResult # FactoryError

\* C11: for every configured client count >= 0 the pool Start builds has
\* min(configured count, 100) clients; it never has more than 100, whatever the
\* number of accounts, and it is not empty when the number of accounts and the
\* configured count are both positive.
C11_PoolSizeIsClampedCount ==
    /\ poolLen <= 100
    /\ (PoolBuilt /\ cfgClientCount >= 0) =>
          /\ poolLen = Min(cfgClientCount, 100)
          /\ (numAccounts > 0 /\ cfgClientCount > 0) => poolLen > 0

\* The pool is complete for a configured count above the cap, and for more
\* than one account.
C11_Witness ==
    /\ PoolBuilt
    /\ cfgClientCount > 100
    /\ numAccounts > 1
    /\ poolLen = 100

\* The delay has been computed for at least one account and a positive rate.
DelayComputed == delay # -1 /\ numAccounts >= 1 /\ cfgTPS >= 1

\* C16 as stated: for every A >= 1 and TPS >= 1 the delay d differs from the
\* exact (A * 1000 / TPS) * 0.95 = 950 * A / TPS milliseconds by less than one
\* millisecond (|d * TPS - 950 * A| < TPS), and it is 1900 for A = 10, TPS = 5.
C16_DelayWithinOneMs ==
    DelayComputed =>
        /\ delay * cfgTPS - 950 * numAccounts < cfgTPS
        /\ 950 * numAccounts - delay * cfgTPS < cfgTPS
        /\ (numAccounts = 10 /\ cfgTPS = 5) => delay = 1900

\* C16 amended: the delay d never exceeds the exact 950 * A / TPS milliseconds
\* and is less than two milliseconds below it, and it is 1900 for A = 10,
\* TPS = 5.
C16_DelayWithinTwoMs ==
    DelayComputed =>
        /\ delay * cfgTPS <= 950 * numAccounts
        /\ 950 * numAccounts - delay * cfgTPS < 2 * cfgTPS
        /\ (numAccounts = 10 /\ cfgTPS = 5) => delay = 1900

\* The delay of one account at 7 transactions per second: 134 ms, where the
\* exact value is 135.71 ms.
C16_Witness ==
    /\ DelayComputed
    /\ numAccounts = 1
    /\ cfgTPS = 7
    /\ delay = 134

----------------------------------------------------------------------------
\* Properties of the workers (specification SpecBot)

\* The workers Start has launched.
Launched == {w \in AccIdx : wPc[w] # "idle"}

\* C12: every launched worker signs with the key of its own account and no
\* other for its whole lifetime, no account has more than one worker (and each
\* has one once the launch loop is over), so no two workers are in Send under
\* the same key; workers that share a client have different keys.
C12_OneKeyPerWorker ==
    /\ \A w \in Launched : wAcc[w] = w
    /\ \A w \in AccIdx \ Launched : wAcc[w] = -1
    /\ \A a \in AccIdx : Cardinality({w \in Launched : wAcc[w] = a}) <= 1
    /\ botPc = "wait" =>
          \A a \in AccIdx : Cardinality({w \in Launched : wAcc[w] = a}) = 1
    /\ \A v, w \in Launched :
          (v # w /\ wPc[v] = "send" /\ wPc[w] = "send") => wAcc[v] # wAcc[w]
    /\ \A v, w \in Launched :
          (v # w /\ wClient[v] = wClient[w]) => wAcc[v] # wAcc[w]

\* Two workers that share a client are both in Send.
C12_Witness ==
    /\ numAccounts = 2
    /\ wPc[0] = "send" /\ wPc[1] = "send"
    /\ wClient[0] = wClient[1]
    /\ wAcc[0] = 0 /\ wAcc[1] = 1

\* C13: a worker is in Send only while none of its transactions is waiting to
\* be mined, so no account has more than one transaction in flight.
C13_SequentialSubmission ==
    \A w \in AccIdx :
        /\ wInFlight[w] \in {0, 1}
        /\ wPc[w] = "send" => wInFlight[w] = 0
        /\ wPc[w] = "mined" => wInFlight[w] = 1

\* A worker submits again after its previous transaction was mined, while
\* another worker's transaction is in flight.
C13_Witness ==
    /\ numAccounts = 2
    /\ wPc[0] = "send" /\ wPrev[0] \in {"mined", "pace"}
    /\ wInFlight[0] = 0
    /\ wInFlight[1] = 1

\* The state of the spec's worker state machine for a position of runBot and
\* what runBot returned.
WState(pc, ret) ==
    CASE pc = "idle" -> "Idle"
      [] pc = "send" -> "Submitting"
      [] pc = "mined" -> "WaitingForConfirmation"
      [] pc = "pace" -> "Pacing"
      [] pc = "done" -> IF IsCancel(ret) THEN "Canceled" ELSE "Failed"

\* Idle -> Submitting -> WaitingForConfirmation -> Pacing -> Submitting.
Cycle ==
    {<<"Idle", "Submitting">>, <<"Submitting", "WaitingForConfirmation">>,
     <<"WaitingForConfirmation", "Pacing">>, <<"Pacing", "Submitting">>}

\* The ways into Failed.
IntoFailed ==
    {<<"Submitting", "Failed">>, <<"WaitingForConfirmation", "Failed">>}

\* C14 as stated: a worker changes state only along Idle -> Submitting ->
\* WaitingForConfirmation -> Pacing -> Submitting, into Canceled from any
\* state once the context is cancelled, or into Failed from Submitting or
\* WaitingForConfirmation on an error that is not the cancellation.
C14_CycleOnly ==
    [][\A w \in AccIdx :
          LET a == WState(wPc[w], wRet[w])
              b == WState(wPc'[w], wRet'[w])
          IN  a # b =>
                \/ <<a, b>> \in Cycle
                \/ b = "Canceled" /\ BotCtxDone
                \/ <<a, b>> \in IntoFailed /\ IsFatal(wRet'[w])]_vars

\* C14 amended: besides the cycle there is WaitingForConfirmation ->
\* Submitting, taken exactly when the confirmation comes after send time + d
\* (Pacing is skipped then, and only then); Canceled is entered from
\* Submitting, WaitingForConfirmation or Pacing once the context is cancelled;
\* Failed is entered only from Submitting or WaitingForConfirmation and only
\* on an error that is not the cancellation.
C14_CycleOrSkippedPacing ==
    [][\A w \in AccIdx :
          LET a == WState(wPc[w], wRet[w])
              b == WState(wPc'[w], wRet'[w])
          IN  a # b =>
                \/ <<a, b>> \in Cycle \ {<<"WaitingForConfirmation", "Pacing">>}
                \/ /\ <<a, b>> = <<"WaitingForConfirmation", "Pacing">>
                   /\ wPhase[w] # 2
                \/ /\ <<a, b>> = <<"WaitingForConfirmation", "Submitting">>
                   /\ wPhase[w] = 2
                \/ /\ b = "Canceled"
                   /\ a \in {"Submitting", "WaitingForConfirmation", "Pacing"}
                   /\ BotCtxDone
                \/ <<a, b>> \in IntoFailed /\ IsFatal(wRet'[w])]_vars

\* Worker 0 has gone from WaitingForConfirmation straight to Submitting, and
\* worker 1 is in Pacing.
C14_Witness ==
    /\ numAccounts = 2
    /\ wPc[0] = "send" /\ wPrev[0] = "mined"
    /\ wPc[1] = "pace"

\* C15: when WaitMined returns to a worker after txSentTime + d, the worker
\* does not call waitFor, so it asks for no sleep, negative or other: its next
\* call is the next Send.
C15_LateSkipsPacing ==
    [][\A w \in AccIdx :
          (wPc[w] = "mined" /\ wPhase[w] = 2 /\ wPc'[w] \notin {"mined", "done"})
              => wPc'[w] = "send"]_vars

\* With a delay above 0, a worker is in its next Send right after a late
\* confirmation.
C15_Witness ==
    /\ delay > 0
    /\ \E w \in AccIdx : wPc[w] = "send" /\ wPrev[w] = "mined" /\ wInFlight[w] = 0

\* d - startDelay * A in nanoseconds, for d in milliseconds and startDelay in
\* nanoseconds: what the division d / A leaves.  The whole milliseconds of
\* startDelay are taken off first, which keeps every value within 32 bits.
StaggerRemainder ==
    (delay - (startDelay \div 1000000) * numAccounts) * 1000000
        - (startDelay % 1000000) * numAccounts

\* C19: workers are launched in the order of their accounts, each after a
\* wait of startDelay = d / A (the integer quotient, in nanoseconds): when
\* worker i is launched, i + 1 stagger timers have fired since Start began and
\* every worker before i has been launched.
C19_StaggeredLaunch ==
    /\ \A i \in Launched :
          /\ botElapsed >= i + 1
          /\ \A j \in 0 .. (i - 1) : j \in Launched
    /\ Launched # {} => StaggerRemainder \in 0 .. (numAccounts - 1)

\* Both workers of two accounts have been launched, with a stagger above 0.
C19_Witness ==
    /\ numAccounts = 2
    /\ Launched = {0, 1}
    /\ startDelay > 0
    /\ botElapsed = 2

\* C20: the worker of account i uses the client of index i mod pool size
\* from its launch on, and the index is within [0, pool size).
C20_ClientAssignment ==
    \A i \in Launched :
        /\ poolLen >= 1
        /\ wClient[i] = i % poolLen
        /\ wClient[i] \in 0 .. (poolLen - 1)

\* With one client for two accounts, worker 1 has the client of index 0 and
\* has returned.
C20_Witness ==
    /\ numAccounts = 2
    /\ poolLen = 1
    /\ wClient[1] = 0
    /\ wPc[1] = "done"

----------------------------------------------------------------------------
\* Further properties of Cluster.Run (specification SpecRun)

\* C23: Run starts one task per node, in index order, and returns only when
\* each of the N tasks has returned, once.
C23_OneTaskPerNodeAllAwaited ==
    /\ runPc = "spawn" => \A n \in NodeIdx : (nodeRun[n] # "idle") <=> (n < runI)
    /\ runPc \in {"wait", "done"} => \A n \in NodeIdx : nodeRun[n] # "idle"
    /\ Len(runRetOrder) = Cardinality(Range(runRetOrder))
    /\ Range(runRetOrder) = {n \in NodeIdx : nodeRun[n] = "returned"}
    /\ runPc = "done" =>
          /\ \A n \in NodeIdx : nodeRun[n] = "returned"
          /\ Len(runRetOrder) = numNodes

\* Run has returned for three nodes, one of which failed.
C23_Witness ==
    /\ numNodes = 3
    /\ runPc = "done"
    /\ Len(runRetOrder) = 3
    /\ \E n \in NodeIdx : nodeWhy[n] = "fail"

\* C28: when the task of a running node returns nil, the group's context is
\* not cancelled by it, no other task changes state and Run stays where it is.
C28_NilReturnDoesNotCancel ==
    [][\A n \in NodeIdx :
          (nodeRun[n] = "running" /\ nodeRun'[n] = "returned" /\ nodeRet'[n] = NoErr)
              => /\ runGroupDone' = runGroupDone
                 /\ runGroupErr' = runGroupErr
                 /\ runPc' = runPc
                 /\ \A m \in NodeIdx \ {n} : nodeRun'[m] = nodeRun[m]]_vars

\* A node has exited with nil by itself, a sibling is still running under a
\* context that is not done, and Run is waiting.
C28_Witness ==
    /\ runPc = "wait"
    /\ ~runGroupDone /\ ~runCallerDone
    /\ \E n, m \in NodeIdx :
          /\ nodeRun[n] = "returned" /\ nodeWhy[n] = "exit" /\ nodeRet[n] = NoErr
          /\ nodeRun[m] = "running"

----------------------------------------------------------------------------
\* Further properties of Cluster.Init (specification Spec)

\* The positions of the call history where op was called on node i.
CallsOf(op, i) == {p \in CallPos : initCalls[p].op = op /\ initCalls[p].node = i}

\* C27: a node's EnodeURL is called only after that node's Init has succeeded,
\* and Init and EnodeURL are each called at most once on a node.
C27_EnodeAfterOwnInitOnce ==
    /\ \A p \in CallPos :
          initCalls[p].op = "EnodeURL" =>
              \E q \in 1 .. (p - 1) : initCalls[q] = Call("Init", initCalls[p].node, TRUE)
    /\ \A i \in NodeIdx :
          /\ Cardinality(CallsOf("Init", i)) <= 1
          /\ Cardinality(CallsOf("EnodeURL", i)) <= 1

\* Init has fetched the identifiers of two nodes and failed on the third's
\* bootstrap.
C27_Witness ==
    /\ numNodes = 3
    /\ initPc = "done"
    /\ initResult = InitializationError(2)
    /\ CallsOf("EnodeURL", 0) # {} /\ CallsOf("EnodeURL", 1) # {}
    /\ CallsOf("EnodeURL", 2) = {}

\* The identifiers of nodes 0..i-1 followed by those of nodes i+1..N-1.
ExpectedPeers(i) ==
    [k \in 1 .. (numNodes - 1) |-> nodeId[IF k <= i THEN k - 1 ELSE k]]

\* C29: the peer list pushed to node i is the identifiers of nodes 0..i-1
\* followed by those of nodes i+1..N-1, without duplicates when the nodes'
\* identifiers are distinct; a single node gets the empty list, and with no
\* node Init returns nil and calls nothing.
C29_PeerListExactOrder ==
    /\ \A i \in NodeIdx :
          staticPushed[i] =>
              /\ staticNodes[i] = ExpectedPeers(i)
              /\ DistinctIds =>
                    Cardinality(Range(staticNodes[i])) = Len(staticNodes[i])
    /\ (numNodes = 1 /\ initPc = "done" /\ initResult = NoErr) =>
          staticPushed[0] /\ staticNodes[0] = <<>>
    /\ numNodes = 0 =>
          /\ initCalls = <<>>
          /\ initResult = NoErr
          /\ initPc \in {"start", "done"}

\* Init has returned nil for three nodes of distinct identifiers; the middle
\* node's list is the first node's identifier, then the last node's.
C29_Witness ==
    /\ numNodes = 3
    /\ DistinctIds
    /\ initPc = "done" /\ initResult = NoErr
    /\ staticNodes[1] = <<nodeId[0], nodeId[2]>>

----------------------------------------------------------------------------
\* Further properties of runBot and Start (specifications SpecBot and SpecPool)

\* C21: a worker starts its next cycle (records the next send time and calls
\* Send) only when the clock has reached the previous cycle's send time plus
\* delay, whether it comes from WaitMined directly or from the pacing sleep.
C21_SubmissionsDelayApart ==
    [][\A w \in AccIdx :
          (wPc[w] \in {"mined", "pace"} /\ wPc'[w] = "send") => wPhase[w] >= 1]_vars

\* With a positive delay, one worker is in its second Send after a pacing
\* sleep and the other after a late confirmation.
C21_Witness ==
    /\ numAccounts = 2
    /\ delay > 0
    /\ wPc[0] = "send" /\ wPrev[0] = "pace"
    /\ wPc[1] = "send" /\ wPrev[1] = "mined"

\* C22: a worker that got an error has terminated, and a terminated worker
\* stays so: it calls neither Send nor WaitMined again.
C22_NoRetries ==
    [][\A w \in AccIdx :
          /\ wRet'[w] # NoErr => wPc'[w] = "done"
          /\ wPc[w] = "done" =>
                /\ wPc'[w] = "done"
                /\ wRet'[w] = wRet[w]
                /\ wInFlight'[w] = wInFlight[w]]_vars

\* Start has returned after one worker failed in Send and the other in
\* WaitMined.
C22_Witness ==
    /\ numAccounts = 2
    /\ botPc = "done"
    /\ wPc[0] = "done" /\ wRet[0] = SendError(0, "fatal")
    /\ wPc[1] = "done" /\ wRet[1] = MinedError(1, "fatal")

\* C24 as stated: when Start has returned, no worker is running.
C24_NoWorkerOutlivesStart == botPc = "done" => NoWorkerRunning

\* C25: a worker that has returned has returned an error, and Start, once a
\* worker has been launched, returns an error.
C25_NeverNil ==
    /\ \A w \in AccIdx : wPc[w] = "done" => wRet[w] # NoErr
    /\ (botPc = "done" /\ Launched # {}) => botResult # NoErr

\* Every worker was launched; the first to return was cancelled in its pacing
\* sleep, and Start has returned the cancellation error from group.Wait().
C25_Witness ==
    /\ numAccounts = 2
    /\ botI = 2
    /\ botPc = "done"
    /\ botRetOrder[1] = 0
    /\ wPrev[0] = "pace" /\ wRet[0] = Canceled
    /\ botResult = Canceled

\* C26: the factory is called at most min(cfg.ClientCount, 100) times; the
\* launch loop starts with a pool of that many clients, one per call, and the
\* pool stays as it is from then on; after a call failed Start has returned
\* that error, without a worker, and the factory is not called again.
C26_PoolBuiltBeforeLaunch ==
    /\ [](/\ poolLen <= factoryCalls
          /\ factoryCalls <= Min(cfgClientCount, clientCap)
          /\ (botPc \in {"launch", "wait"} \/ Launched # {}) =>
                /\ poolLen = Min(cfgClientCount, clientCap)
                /\ factoryCalls = poolLen
          /\ botResult = FactoryError =>
                /\ botPc = "done"
                /\ Launched = {}
                /\ factoryCalls = poolLen + 1)
    /\ [][botPc \notin {"start", "clients"} =>
              /\ poolLen' = poolLen
              /\ factoryCalls' = factoryCalls]_vars

\* With a cfg.ClientCount above the cap, the factory was called 100 times and
\* both workers have been launched.
C26_Witness ==
    /\ numAccounts = 2
    /\ cfgClientCount > clientCap
    /\ factoryCalls = clientCap
    /\ poolLen = clientCap
    /\ botPc = "wait"
    /\ Launched = AccIdx

----------------------------------------------------------------------------
====
